---- MODULE Spec2Model ----
(***************************************************************************)
(* State-machine model of src/agent.py: BaseAgent.test, Seq2SeqAgent's     *)
(* rollout, test and train.                                                *)
(*                                                                         *)
(* Numbers.  Distances to the goal are whole metres 0..MaxDist.  A path    *)
(* similarity (nDTW) k stands for k/NdtwUnits, so 0..NdtwUnits covers      *)
(* [0,1].  A reward r stands for r/NdtwUnits.  A discounted return over a  *)
(* rollout of L recorded timesteps stands for its value divided by         *)
(* NdtwUnits * GammaDen^L, which keeps the recursion exact in integers.    *)
(*                                                                         *)
(* Collaborators that are not in src/ (the simulator, the encoder, the     *)
(* critic, the nDTW criterion) are inputs: every value they can hand back  *)
(* is drawn with \E in the action that reads it.  An observation is a      *)
(* function of the simulator's state, which only makeAction changes, so    *)
(* the distance and similarity of an item that was not moved stay as they  *)
(* were.  The candidate list of an observation is read only by the         *)
(* timestep that follows it, and is drawn there.                           *)
(***************************************************************************)
EXTENDS Integers, Sequences, FiniteSets, TLC

\* ---------------------------------------------------------------- bounds
BatchSize == 2
MaxEpisodeLen == 2
MaxDist == 3
NdtwUnits == 1
MaxCand == 1
NumIds == 3
MaxIters == 2
MaxCritic == 1
NumLevels == 3
NumViewpoints == 3
MaxOracleCand == 3

\* ------------------------------------------------------ program constants
IgnoreId == -100
SuccessDist == 3
NearDist == 1
GammaNum == 9
GammaDen == 10
ViewsPerLevel == 12

Items == 1..BatchSize
Ids == 1..NumIds
Dists == 0..MaxDist
Ndtws == 0..NdtwUnits
\* The critic's estimates are non-zero, so that a bootstrapped return shows.
CriticVals == 1..MaxCritic
\* test's iters argument: << >> is None, <<k>> is the number k.
None == << >>
Feedbacks == {"teacher", "argmax", "sample", "greedy"}

VARIABLES
    feedback,     \* self.feedback
    episode_len,  \* self.episode_len
    loss,         \* self.loss: the terms added so far, in order
    results,      \* self.results: instr_id -> path
    env_ix,       \* the environment's position in its data
    sims,         \* per environment slot: move-to primitives since reset
    rpc,          \* rollout: "idle", "begin", "loop", "exited", "returned", "aborted"
    rargs,        \* rollout's arguments
    train_rl,     \* rollout's local train_rl (after line 246)
    batch,        \* instruction id of each environment slot
    perm_idx,     \* position of the sorted batch -> environment slot
    traj,         \* per position: [instr_id, path]
    ended,        \* per position
    last_dist,    \* per position
    last_ndtw,    \* per position
    dist,         \* per position: the local dist of the last reward pass
    ndtw_score,   \* per position: the local ndtw_score of the last reward pass
    rewards,      \* sequence over timesteps of per-position rewards
    masks,        \* sequence over timesteps of per-position masks
    t,            \* the loop variable of the timestep loop
    discounts,    \* A2C: discount_reward after each timestep, index = timestep + 1
    last_value,   \* A2C: the start of discount_reward
    abort,        \* why the process died: "", "feedback", "desync", "nomove", "assert"
    tpc,          \* test: "off", "run", "done"
    iters,        \* test's iters argument
    looped,       \* test's local looped
    nrollouts,    \* rollouts this test / train call has been handed back
    firsts,       \* test: instr_id -> path of the first trajectory returned for it
    trpc,         \* train: "off", "iter", "first", "second", "done"
    n_iters,      \* train's n_iters argument
    train_fb,     \* train's feedback argument
    ml_weight,    \* args.ml_weight is non-zero
    iter,         \* train's loop variable
    events,       \* what the current train iteration has done, in order
    grads,        \* gradients held by the local models: the loss terms backpropagated
    \* make_equiv_action, one position with a non-stop action
    mpc,          \* "off", "begin", "adjust", "moved", "done", "failed"
    src_point,    \* perm_obs[i]['viewIndex']
    trg_point,    \* select_candidate['pointId']
    src_level,    \* the local src_level
    trg_level,    \* the local trg_level
    viewIndex,    \* the simulator's getState()[0].viewIndex
    nav_ok,       \* navigableLocations[idx].viewpointId is the candidate's viewpointId
    prims,        \* the primitives handed to makeAction, in order
    appended,     \* entries appended to traj[i]['path']
    \* _candidate_variable called alone
    cpc,            \* "off", "call", "built"
    cand_t,         \* the argument t
    cand_n,         \* per position: len(ob['candidate'])
    vis_taj,        \* the argument vis_taj: per position, its rows
    input_a_t,      \* the argument input_a_t: per position, the angle feature
    candidate_feat, \* the result candidate_feat: per position, its rows
    candidate_leng, \* the result candidate_leng
    \* action selection for one position of one timestep
    spc,            \* "off", "oracle", "select", "done"
    sel_t,          \* the loop variable t
    sel_cands,      \* the viewpointId of each of ob['candidate'], in order
    sel_teacher,    \* ob['teacher']
    sel_ended,      \* ended[i]
    sel_target,     \* target[i], line 351
    sel_a_t,        \* a_t[i] after action selection
    sel_cpu_a_t     \* cpu_a_t[i] as handed to make_equiv_action

agentVars == <<feedback, episode_len, loss, results, env_ix, sims, rpc, rargs, train_rl,
          batch, perm_idx, traj, ended, last_dist, last_ndtw, dist, ndtw_score,
          rewards, masks, t, discounts, last_value, abort, tpc, iters, looped, nrollouts, firsts,
          trpc, n_iters, train_fb, ml_weight, iter, events, grads>>

rolloutVars == <<rpc, train_rl, batch, perm_idx, traj, ended, last_dist, last_ndtw,
                 dist, ndtw_score, rewards, masks, t, discounts, last_value, env_ix, sims>>
testVars == <<tpc, iters, looped, results, firsts>>
trainVars == <<trpc, n_iters, train_fb, ml_weight, iter, events, grads>>
meaVars == <<mpc, src_point, trg_point, src_level, trg_level, viewIndex, nav_ok, prims,
             appended>>
candVars == <<cpc, cand_t, cand_n, vis_taj, input_a_t, candidate_feat, candidate_leng>>
selVars == <<spc, sel_t, sel_cands, sel_teacher, sel_ended, sel_target, sel_a_t,
             sel_cpu_a_t>>
unitVars == <<meaVars, candVars, selVars>>
vars == <<agentVars, unitVars>>

\* ------------------------------------------------------------ environment
\* The data of the environment: instruction i has InstrLen(i) tokens.
InstrLen(id) == 1 + ((id + 1) % 2)

\* env.reset(): the next BatchSize instructions of the data, wrapping round.
NextBatch(ix) == [s \in Items |-> 1 + ((ix + s - 1) % NumIds)]

\* The simulator's location after n move-to primitives in slot idx.
Location(idx, n) == <<idx, n>>

\* ------------------------------------------------------- Batch Preprocessor
IsPermutation(p) == \A s \in Items : \E i \in Items : p[i] = s

\* seq_lengths.sort(0, True): any order of the slots with lengths descending.
SortBatch(b) ==
    {p \in [Items -> Items] :
        /\ IsPermutation(p)
        /\ \A i, j \in Items : i < j => InstrLen(b[p[i]]) >= InstrLen(b[p[j]])}

\* --------------------------------------------------------- Teacher Oracle
\* ncand candidates; match is the index of the first candidate whose viewpoint
\* is the teacher's, or ncand when there is none.
TeacherAction(ncand, match, isEnded) ==
    IF isEnded THEN IgnoreId ELSE IF match < ncand THEN match ELSE ncand

\* -------------------------------------------------------- Action Selector
\* Faulty variant: the final else of lines 369-371 is missing.
ValidFeedbackAny(fb) == TRUE

\* lines 355-371: the modes action selection accepts
ValidFeedback(fb) == fb \in {"teacher", "argmax", "sample"}

SelectAction(fb, target, pick) == IF fb = "teacher" THEN target ELSE pick

\* Faulty variant: line 384 without its "or ended[i]".
EnvActionEndedMoves(next_id, ncand, isEnded) ==
    IF next_id = ncand \/ next_id = IgnoreId THEN -1 ELSE next_id

\* lines 383-385: what is handed to the actuator
EnvAction(next_id, ncand, isEnded) ==
    IF next_id = ncand \/ next_id = IgnoreId \/ isEnded THEN -1 ELSE next_id

\* Faulty variant: logical_xor in place of logical_or.
UpdateEndedXor(isEnded, action) == isEnded # (action = -1)

\* line 437: ended[:] = np.logical_or(ended, cpu_a_t == -1)
UpdateEnded(isEnded, action) == isEnded \/ action = -1

\* Faulty variant: the early exit of lines 440-441 is missing.
LoopExitsBudgetOnly(e, tt, len) == tt + 1 = len

\* lines 320 and 440-441: the pass with loop variable tt was the last one.
LoopExits(e, tt, len) == (\A i \in Items : e[i]) \/ tt + 1 = len

\* ---------------------------------------------------------- Reward Shaper
\* Faulty variant: the else branch of lines 425-426 is missing.
NoMoveIgnored(action_idx, d, ld) == FALSE

\* lines 417-426: a move whose distance difference is neither > 0 nor < 0
NoMove(action_idx, d, ld) == action_idx # -1 /\ d - ld = 0

\* Faulty variant: line 413 with <= in place of <.
RewardStopAtThreshold(isEnded, action_idx, d, ld, n, ln) ==
    IF isEnded THEN 0
    ELSE IF action_idx = -1
         THEN IF d <= SuccessDist THEN 2 * NdtwUnits + 2 * n
                                  ELSE 0 - 2 * NdtwUnits
         ELSE LET base == 0 - (d - ld)
                  ndtw_reward == n - ln
                  quant == IF base > 0 THEN NdtwUnits + ndtw_reward
                                       ELSE (0 - NdtwUnits) + ndtw_reward
              IN  IF ld <= NearDist /\ d - ld > 0
                  THEN quant - (1 - ld) * 2 * NdtwUnits
                  ELSE quant

\* lines 406-429, for one position: d, ld the distance now and before, n, ln the
\* similarity now and before.
Reward(isEnded, action_idx, d, ld, n, ln) ==
    IF isEnded THEN 0
    ELSE IF action_idx = -1
         THEN IF d < SuccessDist THEN 2 * NdtwUnits + 2 * n
                                 ELSE 0 - 2 * NdtwUnits
         ELSE LET base == 0 - (d - ld)
                  ndtw_reward == n - ln
                  quant == IF base > 0 THEN NdtwUnits + ndtw_reward
                                       ELSE (0 - NdtwUnits) + ndtw_reward
              IN  IF ld <= NearDist /\ d - ld > 0
                  THEN quant - (1 - ld) * 2 * NdtwUnits
                  ELSE quant

\* lines 400 and 408
Mask(isEnded) == IF isEnded THEN 0 ELSE 1

\* ------------------------------------------------------------------- A2C
RECURSIVE Pow(_, _)
Pow(b, n) == IF n = 0 THEN 1 ELSE b * Pow(b, n - 1)

\* discount_reward after the reverse loop has processed timestep k (1-based),
\* len + 1 being its start; in units of 1 / (NdtwUnits * GammaDen^len).
RECURSIVE Discount(_, _, _, _)
Discount(rs, start, k, i) ==
    IF k = Len(rs) + 1
    THEN start[i] * Pow(GammaDen, Len(rs))
    ELSE (Discount(rs, start, k + 1, i) * GammaNum) \div GammaDen
         + rs[k][i] * Pow(GammaDen, Len(rs))

DiscountRewards(rs, start) ==
    [k \in 1..Len(rs) |-> [i \in Items |-> Discount(rs, start, k, i)]]

\* Faulty variant: line 472's test is missing, ended positions are bootstrapped too.
LastValueAll(critic, e) == critic

\* lines 470-473
LastValue(critic, e) == [i \in Items |-> IF e[i] THEN 0 ELSE critic[i]]

\* lines 245-246
EffectiveTrainRl(fb, arg) == IF fb = "teacher" \/ fb = "argmax" THEN FALSE ELSE arg

\* Faulty variant: line 502 is missing, the actor-critic loss never reaches self.loss.
LossTermsNoRl(fb, rl, a) ==
    (IF a.train_ml THEN << <<fb, "ml">> >> ELSE << >>)
    \o (IF a.train_dis_l THEN << <<fb, "dis_l">> >> ELSE << >>)
    \o (IF a.train_dis_c THEN << <<fb, "dis_c">> >> ELSE << >>)

\* The terms one rollout adds to self.loss, in the order of lines 502-513.
LossTerms(fb, rl, a) ==
    (IF rl THEN << <<fb, "rl">> >> ELSE << >>)
    \o (IF a.train_ml THEN << <<fb, "ml">> >> ELSE << >>)
    \o (IF a.train_dis_l THEN << <<fb, "dis_l">> >> ELSE << >>)
    \o (IF a.train_dis_c THEN << <<fb, "dis_c">> >> ELSE << >>)

\* The three ways the source calls rollout: lines 65/70, 568/572 and 574.
DefaultCall == [train_ml |-> FALSE, train_dis_l |-> FALSE, train_dis_c |-> FALSE,
                train_rl |-> TRUE]
ImitationCall == [train_ml |-> TRUE, train_dis_l |-> TRUE, train_dis_c |-> TRUE,
                  train_rl |-> FALSE]
ReinforceCall == [train_ml |-> FALSE, train_dis_l |-> TRUE, train_dis_c |-> TRUE,
                  train_rl |-> TRUE]

\* ---------------------------------------------------------------- rollout
\* lines 245-318: everything before the timestep loop.
RolloutBegin ==
    /\ rpc = "begin"
    /\ train_rl' = EffectiveTrainRl(feedback, rargs.train_rl)
    /\ batch' = NextBatch(env_ix)
    /\ env_ix' = (env_ix + BatchSize) % NumIds
    /\ sims' = [s \in Items |-> 0]
    /\ \E p \in SortBatch(batch') : perm_idx' = p
    /\ traj' = [i \in Items |->
                 [instr_id |-> batch'[perm_idx'[i]],
                  path |-> << Location(perm_idx'[i], 0) >>]]
    /\ \E d \in [Items -> Dists] : last_dist' = d
    /\ \E n \in [Items -> Ndtws] : last_ndtw' = n
    /\ dist' = last_dist'
    /\ ndtw_score' = last_ndtw'
    /\ ended' = [i \in Items |-> FALSE]
    /\ rewards' = << >>
    /\ masks' = << >>
    /\ discounts' = << >>
    /\ last_value' = [i \in Items |-> 0]
    /\ t' = 0
    /\ rpc' = "loop"
    /\ UNCHANGED <<feedback, episode_len, loss, rargs, abort, testVars, nrollouts,
                   trainVars>>
    /\ UNCHANGED unitVars

\* What one timestep reads from its collaborators for one position:
\*   ncand  the number of candidates of the observation,
\*   match  the teacher's candidate (ncand: none),
\*   pick   the index argmax or the sampler returns, among the unmasked 0..ncand,
\*   dist, ndtw  the distance and similarity observed after the actuation.
ItemInputs(i) ==
    {x \in [ncand : 0..MaxCand, match : 0..MaxCand, pick : 0..MaxCand,
            dist : Dists, ndtw : Ndtws] :
        /\ x.pick <= x.ncand
        /\ x.match <= x.ncand
        /\ IF feedback = "teacher" THEN x.pick = 0 ELSE x.match = 0
        /\ LET a == EnvAction(SelectAction(feedback,
                        TeacherAction(x.ncand, x.match, ended[i]), x.pick),
                        x.ncand, ended[i])
           IN  IF a # -1 /\ train_rl
               THEN TRUE
               ELSE x.dist = last_dist[i] /\ x.ndtw = last_ndtw[i]}

Target(x, i) == TeacherAction(x[i].ncand, x[i].match, ended[i])
CpuAction(x, i) ==
    EnvAction(SelectAction(feedback, Target(x, i), x[i].pick), x[i].ncand, ended[i])

\* make_equiv_action, lines 212-235, for the positions before `stop` (all of
\* them when stop = BatchSize + 1): a move-to in the slot and an append.
MovedBefore(x, stop) == {i \in Items : i < stop /\ CpuAction(x, i) # -1}

\* Faulty variant: perm_idx is not passed on (line 210's default, range(len)):
\* position i drives simulator i.
MakeEquivActionNoPerm(x, stop) ==
    /\ sims' = [s \in Items |->
                 IF s \in MovedBefore(x, stop) THEN sims[s] + 1 ELSE sims[s]]
    /\ traj' = [i \in Items |->
                 IF i \in MovedBefore(x, stop)
                 THEN [traj[i] EXCEPT !.path = Append(@, Location(i, sims[i] + 1))]
                 ELSE traj[i]]

MakeEquivAction(x, stop) ==
    /\ sims' = [s \in Items |->
                 IF \E i \in MovedBefore(x, stop) : perm_idx[i] = s
                 THEN sims[s] + 1 ELSE sims[s]]
    /\ traj' = [i \in Items |->
                 IF i \in MovedBefore(x, stop)
                 THEN [traj[i] EXCEPT !.path =
                          Append(@, Location(perm_idx[i], sims[perm_idx[i]] + 1))]
                 ELSE traj[i]]

\* line 371: the feedback mode is none of the three.
TimestepInvalidFeedback ==
    /\ rpc = "loop"
    /\ ~ValidFeedback(feedback)
    /\ rpc' = "aborted"
    /\ abort' = "feedback"
    /\ UNCHANGED <<feedback, episode_len, loss, rargs, train_rl, batch, perm_idx,
                   traj, ended, last_dist, last_ndtw, dist, ndtw_score, rewards, masks, t, discounts,
                   last_value, env_ix, sims, testVars, nrollouts, trainVars>>
    /\ UNCHANGED unitVars

\* line 229: the simulator does not offer the candidate's viewpoint at position d.
TimestepDesync ==
    /\ rpc = "loop"
    /\ ValidFeedback(feedback)
    /\ \E x \in [Items -> UNION {ItemInputs(i) : i \in Items}] :
         /\ \A i \in Items : x[i] \in ItemInputs(i)
         /\ \A i \in Items : x[i].dist = last_dist[i] /\ x[i].ndtw = last_ndtw[i]
         /\ \E d \in Items :
              /\ CpuAction(x, d) # -1
              /\ MakeEquivAction(x, d)
    /\ rpc' = "aborted"
    /\ abort' = "desync"
    /\ UNCHANGED <<feedback, episode_len, loss, rargs, train_rl, batch, perm_idx,
                   ended, last_dist, last_ndtw, dist, ndtw_score, rewards, masks, t, discounts,
                   last_value, env_ix, testVars, nrollouts, trainVars>>
    /\ UNCHANGED unitVars

\* line 426: a position that has not ended moved and its distance is unchanged.
TimestepNoMove ==
    /\ rpc = "loop"
    /\ ValidFeedback(feedback)
    /\ train_rl
    /\ \E x \in [Items -> UNION {ItemInputs(i) : i \in Items}] :
         /\ \A i \in Items : x[i] \in ItemInputs(i)
         /\ \E i \in Items :
              ~ended[i] /\ NoMove(CpuAction(x, i), x[i].dist, last_dist[i])
         /\ MakeEquivAction(x, BatchSize + 1)
         /\ dist' = [i \in Items |-> x[i].dist]
         /\ ndtw_score' = [i \in Items |-> x[i].ndtw]
    /\ rpc' = "aborted"
    /\ abort' = "nomove"
    /\ UNCHANGED <<feedback, episode_len, loss, rargs, train_rl, batch, perm_idx,
                   ended, last_dist, last_ndtw, rewards, masks, t, discounts,
                   last_value, env_ix, testVars, nrollouts, trainVars>>
    /\ UNCHANGED unitVars

\* lines 320-441: one whole pass of the loop body.
Timestep ==
    /\ rpc = "loop"
    /\ ValidFeedback(feedback)
    /\ \E x \in [Items -> UNION {ItemInputs(i) : i \in Items}] :
         /\ \A i \in Items : x[i] \in ItemInputs(i)
         /\ train_rl =>
              \A i \in Items :
                  ~(~ended[i] /\ NoMove(CpuAction(x, i), x[i].dist, last_dist[i]))
         /\ MakeEquivAction(x, BatchSize + 1)
         /\ IF train_rl
            THEN /\ rewards' = Append(rewards,
                        [i \in Items |-> Reward(ended[i], CpuAction(x, i), x[i].dist,
                                                last_dist[i], x[i].ndtw, last_ndtw[i])])
                 /\ masks' = Append(masks, [i \in Items |-> Mask(ended[i])])
                 /\ dist' = [i \in Items |-> x[i].dist]
                 /\ ndtw_score' = [i \in Items |-> x[i].ndtw]
                 /\ last_dist' = dist'
                 /\ last_ndtw' = ndtw_score'
            ELSE UNCHANGED <<rewards, masks, last_dist, last_ndtw, dist, ndtw_score>>
         /\ ended' = [i \in Items |-> UpdateEnded(ended[i], CpuAction(x, i))]
    /\ IF LoopExits(ended', t, episode_len)
       THEN rpc' = "exited" /\ t' = t
       ELSE rpc' = "loop" /\ t' = t + 1
    /\ UNCHANGED <<feedback, episode_len, loss, rargs, train_rl, batch, perm_idx,
                   discounts, last_value, env_ix, abort, testVars, nrollouts,
                   trainVars>>
    /\ UNCHANGED unitVars

\* lines 443-520: the A2C pass, the loss terms, the return.
RolloutReturn ==
    /\ rpc = "exited"
    /\ IF train_rl
       THEN \E critic \in [Items -> CriticVals] :
              /\ \A i \in Items : ended[i] => critic[i] = MaxCritic
              /\ last_value' = LastValue(critic, ended)
              /\ discounts' = DiscountRewards(rewards, last_value')
       ELSE UNCHANGED <<last_value, discounts>>
    /\ loss' = loss \o LossTerms(feedback, train_rl, rargs)
    /\ rpc' = "returned"
    /\ UNCHANGED <<feedback, episode_len, rargs, train_rl, batch, perm_idx, traj,
                   ended, last_dist, last_ndtw, dist, ndtw_score, rewards, masks, t, env_ix, sims,
                   abort, testVars, nrollouts, trainVars>>
    /\ UNCHANGED unitVars

Rollout ==
    \/ RolloutBegin
    \/ TimestepInvalidFeedback
    \/ TimestepDesync
    \/ TimestepNoMove
    \/ Timestep
    \/ RolloutReturn

\* ------------------------------------------------- a rollout called alone
InitIdleRollout ==
    /\ loss = << >>
    /\ results = << >>
    /\ env_ix = 0
    /\ sims = [s \in Items |-> 0]
    /\ train_rl = FALSE
    /\ batch = [s \in Items |-> 1]
    /\ perm_idx = [i \in Items |-> i]
    /\ traj = [i \in Items |-> [instr_id |-> 1, path |-> << >>]]
    /\ ended = [i \in Items |-> FALSE]
    /\ last_dist = [i \in Items |-> 0]
    /\ last_ndtw = [i \in Items |-> 0]
    /\ dist = [i \in Items |-> 0]
    /\ ndtw_score = [i \in Items |-> 0]
    /\ rewards = << >>
    /\ masks = << >>
    /\ t = 0
    /\ discounts = << >>
    /\ last_value = [i \in Items |-> 0]
    /\ abort = ""
    /\ nrollouts = 0

InitNoTest ==
    /\ tpc = "off"
    /\ iters = None
    /\ looped = FALSE
    /\ firsts = << >>

InitNoTrain ==
    /\ trpc = "off"
    /\ n_iters = 0
    /\ train_fb = "teacher"
    /\ ml_weight = FALSE
    /\ iter = 0
    /\ events = << >>
    /\ grads = << >>

\* No actuation, feature building, oracle or selection is being examined alone.
InitNoMea ==
    /\ mpc = "off"
    /\ src_point = 0
    /\ trg_point = 0
    /\ src_level = 0
    /\ trg_level = 0
    /\ viewIndex = 0
    /\ nav_ok = TRUE
    /\ prims = << >>
    /\ appended = 0

InitNoCand ==
    /\ cpc = "off"
    /\ cand_t = 0
    /\ cand_n = [i \in Items |-> 0]
    /\ vis_taj = [i \in Items |-> << >>]
    /\ input_a_t = [i \in Items |-> 0]
    /\ candidate_feat = [i \in Items |-> << >>]
    /\ candidate_leng = [i \in Items |-> 0]

InitNoSel ==
    /\ spc = "off"
    /\ sel_t = 0
    /\ sel_cands = << >>
    /\ sel_teacher = 1
    /\ sel_ended = FALSE
    /\ sel_target = 0
    /\ sel_a_t = 0
    /\ sel_cpu_a_t = 0

InitNoUnit == InitNoMea /\ InitNoCand /\ InitNoSel

Init ==
    /\ InitNoUnit
    /\ InitIdleRollout
    /\ InitNoTest
    /\ InitNoTrain
    /\ feedback \in Feedbacks
    /\ episode_len \in 1..MaxEpisodeLen
    /\ rargs \in {DefaultCall, ImitationCall}
    /\ rpc = "begin"

Next == Rollout

Spec == Init /\ [][Next]_vars

\* ------------------------------------------------------------------ test
\* Adding trajectory k.. of the returned list to self.results, lines 65-67.
RECURSIVE StoreAll(_, _, _)
StoreAll(res, tr, k) ==
    IF k > BatchSize THEN res
    ELSE StoreAll((tr[k].instr_id :> tr[k].path) @@ res, tr, k + 1)

\* Faulty variant: line 71's test is missing, a repeated id overwrites its path.
StoreNewOverwrites(res, tr, k) == StoreAll(res, tr, k)

\* lines 70-75: only an instruction id that is not yet in self.results is added.
RECURSIVE StoreNew(_, _, _)
StoreNew(res, tr, k) ==
    IF k > BatchSize THEN res
    ELSE StoreNew(IF tr[k].instr_id \in DOMAIN res
                  THEN res
                  ELSE (tr[k].instr_id :> tr[k].path) @@ res, tr, k + 1)

\* lines 71-72: some trajectory of the list finds its id already in self.results.
RECURSIVE Repeats(_, _, _)
Repeats(res, tr, k) ==
    IF k > BatchSize THEN FALSE
    ELSE \/ tr[k].instr_id \in DOMAIN res
         \/ Repeats((tr[k].instr_id :> tr[k].path) @@ res, tr, k + 1)

\* History: the path of the first trajectory ever returned for each instruction id.
FirstPaths(fs, tr) ==
    LET new == {tr[k].instr_id : k \in Items} \ DOMAIN fs
        first(id) == CHOOSE k \in Items :
                        /\ tr[k].instr_id = id
                        /\ \A j \in Items : tr[j].instr_id = id => k <= j
    IN  [id \in DOMAIN fs \cup new |->
            IF id \in DOMAIN fs THEN fs[id] ELSE tr[first(id)].path]

\* lines 64-65 and 69-70: the next call of rollout.
TestCallRollout ==
    /\ tpc = "run"
    /\ rpc = "idle"
    /\ iters # None => nrollouts < iters[1]
    /\ rargs' = DefaultCall
    /\ rpc' = "begin"
    /\ UNCHANGED <<feedback, episode_len, loss, train_rl, batch, perm_idx, traj,
                   ended, last_dist, last_ndtw, dist, ndtw_score, rewards, masks, t, discounts,
                   last_value, env_ix, sims, abort, testVars, nrollouts, trainVars>>
    /\ UNCHANGED unitVars

\* lines 65-67 and 70-77: the loop over the trajectories rollout returned.
TestCollect ==
    /\ tpc = "run"
    /\ rpc = "returned"
    /\ IF iters # None
       THEN /\ results' = StoreAll(results, traj, 1)
            /\ looped' = looped
            /\ loss' = << >>
            /\ tpc' = "run"
       ELSE /\ results' = StoreNew(results, traj, 1)
            /\ looped' = (looped \/ Repeats(results, traj, 1))
            /\ loss' = IF results' # results THEN << >> ELSE loss
            /\ tpc' = IF looped' THEN "done" ELSE "run"
    /\ firsts' = FirstPaths(firsts, traj)
    /\ nrollouts' = nrollouts + 1
    /\ rpc' = "idle"
    /\ UNCHANGED <<feedback, episode_len, rargs, train_rl, batch, perm_idx, traj,
                   ended, last_dist, last_ndtw, dist, ndtw_score, rewards, masks, t, discounts,
                   last_value, env_ix, sims, abort, iters, trainVars>>
    /\ UNCHANGED unitVars

\* line 64: range(iters) is exhausted.
TestFinish ==
    /\ tpc = "run"
    /\ rpc = "idle"
    /\ iters # None
    /\ nrollouts = iters[1]
    /\ tpc' = "done"
    /\ UNCHANGED <<feedback, episode_len, loss, rargs, rolloutVars, abort, iters,
                   looped, results, firsts, nrollouts, trainVars>>
    /\ UNCHANGED unitVars

\* Seq2SeqAgent.test up to the first rollout: lines 524-531 and 56-61.
InitTest ==
    /\ InitNoUnit
    /\ InitIdleRollout
    /\ InitNoTrain
    /\ feedback \in Feedbacks
    /\ episode_len = 1
    /\ rargs = DefaultCall
    /\ rpc = "idle"
    /\ tpc = "run"
    /\ iters \in {None} \cup {<<k>> : k \in 0..MaxIters}
    /\ looped = FALSE
    /\ firsts = << >>

NextTest == Rollout \/ TestCallRollout \/ TestCollect \/ TestFinish

TestSpec == InitTest /\ [][NextTest]_vars

\* ----------------------------------------------------------------- train
\* What a returned rollout did, as the train loop sees it.
RolloutEvent == <<"rollout", feedback, train_rl>>

\* lines 557-576, up to the first call of rollout of an iteration.
TrainIteration ==
    /\ trpc = "iter"
    /\ rpc = "idle"
    /\ iter <= n_iters
    /\ grads' = << >>
    /\ loss' = << >>
    /\ IF train_fb = "teacher"
       THEN /\ feedback' = "teacher"
            /\ rargs' = ImitationCall
            /\ rpc' = "begin"
            /\ trpc' = "last"
            /\ abort' = abort
       ELSE IF train_fb = "sample"
       THEN IF ml_weight
            THEN /\ feedback' = "teacher"
                 /\ rargs' = ImitationCall
                 /\ rpc' = "begin"
                 /\ trpc' = "first"
                 /\ abort' = abort
            ELSE /\ feedback' = "sample"
                 /\ rargs' = ReinforceCall
                 /\ rpc' = "begin"
                 /\ trpc' = "last"
                 /\ abort' = abort
       ELSE /\ abort' = "assert"
            /\ trpc' = "aborted"
            /\ UNCHANGED <<feedback, rargs, rpc>>
    /\ events' = <<"load_state_dict", "zero_grad", "loss = 0">>
    /\ UNCHANGED <<episode_len, train_rl, batch, perm_idx, traj, ended, last_dist,
                   last_ndtw, dist, ndtw_score, rewards, masks, t, discounts, last_value, env_ix, sims,
                   testVars, nrollouts, n_iters, train_fb, ml_weight, iter>>
    /\ UNCHANGED unitVars

\* lines 573-574: the sampled rollout that follows the imitation rollout.
TrainReinforce ==
    /\ trpc = "first"
    /\ rpc = "returned"
    /\ events' = Append(events, RolloutEvent)
    /\ nrollouts' = nrollouts + 1
    /\ feedback' = "sample"
    /\ rargs' = ReinforceCall
    /\ rpc' = "begin"
    /\ trpc' = "last"
    /\ UNCHANGED <<episode_len, loss, train_rl, batch, perm_idx, traj, ended,
                   last_dist, last_ndtw, dist, ndtw_score, rewards, masks, t, discounts, last_value,
                   env_ix, sims, abort, testVars, n_iters, train_fb, ml_weight, iter,
                   grads>>
    /\ UNCHANGED unitVars

\* line 578: backward on self.loss, and the end of the iteration.
TrainBackward ==
    /\ trpc = "last"
    /\ rpc = "returned"
    /\ events' = events \o <<RolloutEvent, "backward">>
    /\ nrollouts' = nrollouts + 1
    /\ grads' = grads \o loss
    /\ iter' = iter + 1
    /\ rpc' = "idle"
    /\ trpc' = "iter"
    /\ UNCHANGED <<feedback, episode_len, loss, rargs, train_rl, batch, perm_idx,
                   traj, ended, last_dist, last_ndtw, dist, ndtw_score, rewards, masks, t, discounts,
                   last_value, env_ix, sims, abort, testVars, n_iters, train_fb,
                   ml_weight>>
    /\ UNCHANGED unitVars

\* line 557: range(1, n_iters + 1) is exhausted.
TrainFinish ==
    /\ trpc = "iter"
    /\ rpc = "idle"
    /\ iter > n_iters
    /\ trpc' = "done"
    /\ UNCHANGED <<feedback, episode_len, loss, rargs, rolloutVars, abort, testVars,
                   nrollouts, n_iters, train_fb, ml_weight, iter, events, grads>>
    /\ UNCHANGED unitVars

\* Seq2SeqAgent.train up to its loop: lines 551-556.
InitTrain ==
    /\ InitNoUnit
    /\ InitIdleRollout
    /\ InitNoTest
    /\ train_fb \in {"teacher", "sample", "argmax"}
    /\ feedback = train_fb
    /\ ml_weight \in BOOLEAN
    /\ n_iters \in 0..MaxIters
    /\ episode_len = 1
    /\ rargs = DefaultCall
    /\ rpc = "idle"
    /\ trpc = "iter"
    /\ iter = 1
    /\ events = << >>
    /\ grads = << >>

NextTrain ==
    \/ RolloutBegin
    \/ TimestepDesync
    \/ TimestepNoMove
    \/ Timestep
    \/ RolloutReturn
    \/ TrainIteration
    \/ TrainReinforce
    \/ TrainBackward
    \/ TrainFinish

TrainSpec == InitTrain /\ [][NextTrain]_vars

\* ===================================================== make_equiv_action
\* The actuation of one non-stop action for one position, primitive by primitive.
\* The simulator's discretized views: NumLevels tilt levels of ViewsPerLevel
\* headings each, view index = level * ViewsPerLevel + heading index.
Views == 0..(NumLevels * ViewsPerLevel - 1)

\* makeAction with env_actions['up'], ['down'], ['right'] (lines 84-89): one tilt
\* level up or down, kept inside the levels, or one heading to the right, wrapping.
SimUp(v) == IF v \div ViewsPerLevel < NumLevels - 1 THEN v + ViewsPerLevel ELSE v
SimDown(v) == IF v \div ViewsPerLevel > 0 THEN v - ViewsPerLevel ELSE v
SimRight(v) ==
    ((v \div ViewsPerLevel) * ViewsPerLevel) + (((v % ViewsPerLevel) + 1) % ViewsPerLevel)

\* Faulty variant: the heading index taken for the tilt level.
LevelOfHeading(point) == point % ViewsPerLevel

\* lines 218-219: (point) // 12
Level(point) == point \div ViewsPerLevel

\* lines 215-219
MeaBegin ==
    /\ mpc = "begin"
    /\ src_level' = Level(src_point)
    /\ trg_level' = Level(trg_point)
    /\ mpc' = "adjust"
    /\ UNCHANGED <<src_point, trg_point, viewIndex, nav_ok, prims, appended>>
    /\ UNCHANGED <<agentVars, candVars, selVars>>

\* lines 220-222: while src_level < trg_level
MeaTuneUp ==
    /\ mpc = "adjust"
    /\ src_level < trg_level
    /\ viewIndex' = SimUp(viewIndex)
    /\ prims' = Append(prims, "up")
    /\ src_level' = src_level + 1
    /\ UNCHANGED <<mpc, src_point, trg_point, trg_level, nav_ok, appended>>
    /\ UNCHANGED <<agentVars, candVars, selVars>>

\* lines 223-225: while src_level > trg_level, entered once the loop above is over
MeaTuneDown ==
    /\ mpc = "adjust"
    /\ ~(src_level < trg_level)
    /\ src_level > trg_level
    /\ viewIndex' = SimDown(viewIndex)
    /\ prims' = Append(prims, "down")
    /\ src_level' = src_level - 1
    /\ UNCHANGED <<mpc, src_point, trg_point, trg_level, nav_ok, appended>>
    /\ UNCHANGED <<agentVars, candVars, selVars>>

\* lines 227-228: while the simulator's viewIndex != trg_point
MeaTurnRight ==
    /\ mpc = "adjust"
    /\ ~(src_level < trg_level)
    /\ ~(src_level > trg_level)
    /\ viewIndex # trg_point
    /\ viewIndex' = SimRight(viewIndex)
    /\ prims' = Append(prims, "right")
    /\ UNCHANGED <<mpc, src_point, trg_point, src_level, trg_level, nav_ok, appended>>
    /\ UNCHANGED <<agentVars, candVars, selVars>>

\* lines 229-230: the assert fails, the process dies of the AssertionError
MeaDesync ==
    /\ mpc = "adjust"
    /\ ~(src_level < trg_level)
    /\ ~(src_level > trg_level)
    /\ viewIndex = trg_point
    /\ ~nav_ok
    /\ mpc' = "failed"
    /\ UNCHANGED <<src_point, trg_point, src_level, trg_level, viewIndex, nav_ok, prims,
                   appended>>
    /\ UNCHANGED <<agentVars, candVars, selVars>>

\* lines 229-231: the assert holds, take_action(i, idx, select_candidate['idx'])
MeaMoveTo ==
    /\ mpc = "adjust"
    /\ ~(src_level < trg_level)
    /\ ~(src_level > trg_level)
    /\ viewIndex = trg_point
    /\ nav_ok
    /\ prims' = Append(prims, "move")
    /\ mpc' = "moved"
    /\ UNCHANGED <<src_point, trg_point, src_level, trg_level, viewIndex, nav_ok, appended>>
    /\ UNCHANGED <<agentVars, candVars, selVars>>

\* lines 233-235: traj[i]['path'].append(...)
MeaAppend ==
    /\ mpc = "moved"
    /\ appended' = appended + 1
    /\ mpc' = "done"
    /\ UNCHANGED <<src_point, trg_point, src_level, trg_level, viewIndex, nav_ok, prims>>
    /\ UNCHANGED <<agentVars, candVars, selVars>>

\* The agent itself is idle while one of its functions is examined alone.
InitAgentIdle ==
    /\ InitIdleRollout
    /\ InitNoTest
    /\ InitNoTrain
    /\ episode_len = 1
    /\ rargs = DefaultCall
    /\ rpc = "idle"

InitAgentOff == InitAgentIdle /\ feedback = "teacher"

\* The observation is the one read after the previous actuation (line 392), so
\* its viewIndex is the simulator's.
InitMea ==
    /\ InitAgentOff
    /\ mpc = "begin"
    /\ src_point \in Views
    /\ trg_point \in Views
    /\ viewIndex = src_point
    /\ nav_ok \in BOOLEAN
    /\ src_level = 0
    /\ trg_level = 0
    /\ prims = << >>
    /\ appended = 0
    /\ InitNoCand
    /\ InitNoSel

NextMea ==
    \/ MeaBegin
    \/ MeaTuneUp
    \/ MeaTuneDown
    \/ MeaTurnRight
    \/ MeaDesync
    \/ MeaMoveTo
    \/ MeaAppend

\* A running process keeps executing: weak fairness of its next statement.
MeaSpec == InitMea /\ [][NextMea]_vars /\ WF_vars(NextMea)

\* ==================================================== _candidate_variable
\* A feature row has feature_size visual components and angle_feat_size angle
\* components; each group is one value here, 0 standing for all zeros.
ZeroRow == [vis |-> 0, ang |-> 0]

\* cc['feature'] of candidate j (1-based) of position i: a value of its own.
CandFeature(i, j) == [vis |-> 10 * i + j, ang |-> 10 * i + j]

\* utils.angle_feature of position i's heading and elevation (line 169): sines and
\* cosines, never all zeros; a value of its own, apart from the bank's 0 and 1.
AngleFeature(i) == 1 + i

\* line 150: +1 is for the end
CandidateLeng(n, tt) == [i \in Items |-> n[i] + 1 + tt]

MaxOf(f) == CHOOSE m \in {f[i] : i \in Items} : \A i \in Items : f[i] <= m

\* Faulty variant: line 161 writes row j instead of row j + t.
CandidateVariableNoOffset(n, tt, bank, a) ==
    LET rows == MaxOf(CandidateLeng(n, tt))
        zeros == [i \in Items |-> [r \in 1..rows |-> ZeroRow]]
        kept == [i \in Items |-> [r \in 1..rows |->
                   IF tt > 0 /\ r <= tt - 1 THEN bank[i][r]
                   ELSE IF tt > 0 /\ r = tt
                        THEN [vis |-> bank[i][tt].vis, ang |-> a[i]]
                        ELSE zeros[i][r]]]
    IN  [i \in Items |-> [r \in 1..rows |->
           IF r \in 1..n[i] THEN CandFeature(i, r) ELSE kept[i][r]]]

\* lines 149-164, rows counted from 1: the zeros of line 151, the rows :t-1 of
\* line 155, the row t-1 of lines 156-157, then the candidates of lines 159-162.
CandidateVariable(n, tt, bank, a) ==
    LET rows == MaxOf(CandidateLeng(n, tt))
        zeros == [i \in Items |-> [r \in 1..rows |-> ZeroRow]]
        kept == [i \in Items |-> [r \in 1..rows |->
                   IF tt > 0 /\ r <= tt - 1 THEN bank[i][r]
                   ELSE IF tt > 0 /\ r = tt
                        THEN [vis |-> bank[i][tt].vis, ang |-> a[i]]
                        ELSE zeros[i][r]]]
    IN  [i \in Items |-> [r \in 1..rows |->
           IF r \in (tt + 1)..(tt + n[i]) THEN CandFeature(i, r - tt) ELSE kept[i][r]]]

CandBuild ==
    /\ cpc = "call"
    /\ candidate_feat' = CandidateVariable(cand_n, cand_t, vis_taj, input_a_t)
    /\ candidate_leng' = CandidateLeng(cand_n, cand_t)
    /\ cpc' = "built"
    /\ UNCHANGED <<cand_t, cand_n, vis_taj, input_a_t>>
    /\ UNCHANGED <<agentVars, meaVars, selVars>>

\* The memory bank as rollout holds it when it calls with t (lines 322 and 445):
\* MaxEpisodeLen rows, of which rows 0..t-2 are whole, row t-1 has its visual
\* part only (line 388 writes that part, the angle part is still the zeros of
\* line 317) and the rest is zero.  An angle feature is never all zeros.
MemoryBanks(tt) ==
    {b \in [1..MaxEpisodeLen -> [vis : 0..1, ang : 0..1]] :
        \A r \in 1..MaxEpisodeLen :
            /\ r = tt => b[r].ang = 0
            /\ r > tt => b[r] = ZeroRow}

InitCand ==
    /\ InitAgentOff
    /\ InitNoMea
    /\ cpc = "call"
    /\ cand_t \in 0..MaxEpisodeLen
    /\ cand_n \in [Items -> 0..MaxCand]
    /\ vis_taj \in [Items -> MemoryBanks(cand_t)]
    /\ input_a_t = [i \in Items |-> AngleFeature(i)]
    /\ candidate_feat = [i \in Items |-> << >>]
    /\ candidate_leng = [i \in Items |-> 0]
    /\ InitNoSel

NextCand == CandBuild

CandSpec == InitCand /\ [][NextCand]_vars

\* ============================== teacher oracle and action selection, alone
\* One position of one pass of the timestep loop, lines 347-385.
Viewpoints == 1..NumViewpoints
CandidateLists == UNION {[1..n -> Viewpoints] : n \in 0..MaxOracleCand}

\* Faulty variant: the break of line 191 is missing, a later match overwrites.
RECURSIVE LastMatch(_, _, _)
LastMatch(cands, teacher, k) ==
    IF k = Len(cands) THEN Len(cands)
    ELSE LET later == LastMatch(cands, teacher, k + 1)
         IN  IF later < Len(cands) THEN later
             ELSE IF cands[k + 1] = teacher THEN k ELSE Len(cands)

\* lines 188-194: the scan from candidate k (counted from 0) on; the index of the
\* first candidate whose viewpointId is ob['teacher'], len(ob['candidate']) if
\* the loop runs out.
RECURSIVE FirstMatch(_, _, _)
FirstMatch(cands, teacher, k) ==
    IF k = Len(cands) THEN Len(cands)
    ELSE IF cands[k + 1] = teacher THEN k
    ELSE FirstMatch(cands, teacher, k + 1)

\* lines 347-348: the slots of the logit that length2mask([l - t]) leaves
\* unmasked; argmax and the sampler return one of them.
Unmasked(leng, tt) == 0..(leng - tt - 1)

\* Faulty variant: the stop slot taken as candidate_leng[i] - 1.
StopSlotUnshifted(leng, tt) == leng - 1

\* line 384: candidate_leng[i] - 1 - t
StopSlot(leng, tt) == leng - 1 - tt

\* line 351
SelOracle ==
    /\ spc = "oracle"
    /\ sel_target' = TeacherAction(Len(sel_cands),
                                   FirstMatch(sel_cands, sel_teacher, 0), sel_ended)
    /\ spc' = "select"
    /\ UNCHANGED <<sel_t, sel_cands, sel_teacher, sel_ended, sel_a_t, sel_cpu_a_t>>
    /\ UNCHANGED <<agentVars, meaVars, candVars>>

\* lines 354-385
SelAct ==
    /\ spc = "select"
    /\ ValidFeedback(feedback)
    /\ LET leng == Len(sel_cands) + 1 + sel_t
       IN  \E pick \in Unmasked(leng, sel_t) :
             /\ sel_a_t' = SelectAction(feedback, sel_target, pick)
             /\ sel_cpu_a_t' = EnvAction(sel_a_t', StopSlot(leng, sel_t), sel_ended)
    /\ spc' = "done"
    /\ UNCHANGED <<sel_t, sel_cands, sel_teacher, sel_ended, sel_target>>
    /\ UNCHANGED <<agentVars, meaVars, candVars>>

InitSel ==
    /\ InitAgentIdle
    /\ InitNoMea
    /\ InitNoCand
    /\ feedback \in {"teacher", "argmax", "sample"}
    /\ spc = "oracle"
    /\ sel_t \in 0..(MaxEpisodeLen - 1)
    /\ sel_cands \in CandidateLists
    /\ sel_teacher \in Viewpoints
    /\ sel_ended \in BOOLEAN
    /\ sel_target = 0
    /\ sel_a_t = 0
    /\ sel_cpu_a_t = 0

NextSel == SelOracle \/ SelAct

SelSpec == InitSel /\ [][NextSel]_vars

\* ================================================================ claims
InRollout == rpc \in {"loop", "exited", "returned", "aborted"}
AllEnded(e) == \A i \in Items : e[i]
PathLen(tr, i) == Len(tr[i].path)

\* C1: within one rollout, once ended[i] is true it is true at every later
\* timestep, whatever the feedback mode: no step of a rollout in progress turns
\* a true ended[i] into false.
C1_EndedMonotonic ==
    [][InRollout => \A i \in Items : ended[i] => ended'[i]]_vars

\* C1 witness: position i ended in the first timestep, a second timestep was run
\* for the other position, and i is still ended.
C1_Witness ==
    /\ rpc = "exited"
    /\ t = 1
    /\ \E i, j \in Items :
         /\ ended[i] /\ PathLen(traj, i) = 1
         /\ PathLen(traj, j) = 3

\* C2: a rollout holds one trajectory per batch position, keyed by the instruction
\* id of that position's observation; the path's length is 1 plus the number of
\* move-to primitives issued in the position's simulator; and a timestep leaves
\* the path and the simulator of a position alone when the position had ended
\* before it or chose stop (or the ignore sentinel) in it, and adds exactly one
\* entry and one move otherwise.
C2_State ==
    InRollout =>
        /\ DOMAIN traj = Items
        /\ \A i \in Items :
             /\ traj[i].instr_id = batch[perm_idx[i]]
             /\ PathLen(traj, i) = 1 + sims[perm_idx[i]]

C2_Step ==
    (rpc = "loop" /\ rpc' # "aborted") =>
        \A i \in Items :
            IF ended'[i]
            THEN /\ traj'[i] = traj[i]
                 /\ sims'[perm_idx[i]] = sims[perm_idx[i]]
            ELSE /\ PathLen(traj', i) = PathLen(traj, i) + 1
                 /\ sims'[perm_idx[i]] = sims[perm_idx[i]] + 1

C2_EndedUntouched ==
    InRollout =>
        \A i \in Items :
            ended[i] => /\ traj'[i] = traj[i]
                        /\ sims'[perm_idx[i]] = sims[perm_idx[i]]

C2_Trajectories == []C2_State /\ [][C2_Step /\ C2_EndedUntouched]_vars

\* C2 witness: a returned rollout in which one position stopped at once (path of
\* length 1) while the other moved in both timesteps (path of length 3).
C2_Witness ==
    /\ rpc = "returned"
    /\ \E i, j \in Items :
         /\ PathLen(traj, i) = 1 /\ traj[i].instr_id = batch[perm_idx[i]]
         /\ PathLen(traj, j) = 3 /\ sims[perm_idx[j]] = 2
         /\ perm_idx[j] # j

\* C3: the timestep loop runs at most episode_len passes and never starts a pass
\* with every position ended; it is left for the code after the loop exactly at the
\* end of the first pass after which every position has ended, or after pass
\* episode_len; each pass that does not leave it advances the loop variable by one.
C3_State ==
    /\ rpc = "loop" => (t < episode_len /\ ~AllEnded(ended))
    /\ rpc \in {"exited", "returned"} =>
          (t + 1 <= episode_len /\ (AllEnded(ended) \/ t + 1 = episode_len))

C3_Step ==
    rpc = "loop" =>
        /\ rpc' \in {"loop", "exited", "aborted"}
        /\ rpc' = "loop" => (t' = t + 1 /\ ~AllEnded(ended'))
        /\ rpc' = "exited" => (t' = t /\ (AllEnded(ended') \/ t + 1 = episode_len))
        /\ (AllEnded(ended') /\ rpc' # "aborted") => rpc' = "exited"

C3_LoopTerminates == []C3_State /\ [][C3_Step]_vars

\* C3 witness: the loop was left before the budget was used up, every position
\* having ended.
C3_Witness ==
    /\ rpc = "exited"
    /\ t + 1 < episode_len
    /\ AllEnded(ended)

\* C4: test disables reinforcement: whatever feedback mode test is called with, no
\* rollout it runs records rewards or masks, computes discounted returns or adds
\* the actor-critic loss to self.loss.
C4_TestNoReinforcement ==
    tpc # "off" =>
        /\ rewards = << >>
        /\ masks = << >>
        /\ discounts = << >>
        /\ \A k \in 1..Len(loss) : loss[k][2] # "rl"

\* C5: test with iters = None runs rollouts until one returns an instruction id
\* that self.results already holds and stops once that rollout's trajectories have
\* all been looked at; up to then no id was repeated, so the drain ends: it runs at
\* most NumIds \div BatchSize + 1 rollouts and, short of a fatal error, is never
\* stuck before it is done; self.results holds exactly the ids returned so far, each
\* with the path of its first occurrence.  With iters = k test runs exactly k
\* rollouts.
C5_TestDrain ==
    tpc # "off" =>
        /\ DOMAIN results \subseteq Ids
        /\ tpc = "done" \/ rpc = "aborted" \/ ENABLED NextTest
        /\ iters = None => BatchSize * (nrollouts - 1) <= NumIds
        /\ iters = None =>
             /\ results = firsts
             /\ tpc = "run" =>
                  /\ ~looped
                  /\ Cardinality(DOMAIN results) = BatchSize * nrollouts
             /\ tpc = "done" =>
                  /\ looped
                  /\ Cardinality(DOMAIN results) < BatchSize * nrollouts
                  /\ Cardinality(DOMAIN results) >= BatchSize * (nrollouts - 1)
                  /\ \A i \in Items : traj[i].instr_id \in DOMAIN results
        /\ iters # None =>
             /\ nrollouts <= iters[1]
             /\ DOMAIN results = DOMAIN firsts
             /\ tpc = "done" => nrollouts = iters[1]

\* C5 witness: a full round that ended in its second rollout, whose first
\* trajectory repeated an id (the path kept is the older one) and whose second
\* trajectory, looked at after the repeat, was still recorded.
C5_Witness ==
    /\ tpc = "done"
    /\ iters = None
    /\ nrollouts = 2
    /\ \E i, j \in Items :
         /\ i < j
         /\ results[traj[i].instr_id] # traj[i].path
         /\ results[traj[j].instr_id] = traj[j].path
         /\ Cardinality(DOMAIN results) = BatchSize + 1

\* C6: every iteration of train does, in this order: load the shared weights, zero
\* the gradients, reset the loss, run its rollouts (feedback 'teacher': one
\* teacher-forced rollout without reinforcement; feedback 'sample': a
\* teacher-forced rollout without reinforcement first, only if ml_weight is not 0,
\* then a sampled rollout with reinforcement), then backward once, on the loss of
\* exactly those rollouts; any other feedback aborts before any rollout.
ExpectedRollouts ==
    IF train_fb = "teacher" THEN << <<"rollout", "teacher", FALSE>> >>
    ELSE (IF ml_weight THEN << <<"rollout", "teacher", FALSE>> >> ELSE << >>)
         \o << <<"rollout", "sample", TRUE>> >>

ExpectedEvents ==
    <<"load_state_dict", "zero_grad", "loss = 0">> \o ExpectedRollouts \o <<"backward">>

ImitationTerms == << <<"teacher", "ml">>, <<"teacher", "dis_l">>, <<"teacher", "dis_c">> >>
ReinforceTerms == << <<"sample", "rl">>, <<"sample", "dis_l">>, <<"sample", "dis_c">> >>

ExpectedGrads ==
    IF train_fb = "teacher" THEN ImitationTerms
    ELSE (IF ml_weight THEN ImitationTerms ELSE << >>) \o ReinforceTerms

IsPrefix(a, b) == Len(a) <= Len(b) /\ \A k \in 1..Len(a) : a[k] = b[k]

C6_TrainIteration ==
    trpc # "off" =>
        IF train_fb \in {"teacher", "sample"}
        THEN /\ IsPrefix(events, ExpectedEvents)
             /\ (trpc \in {"iter", "done"} /\ iter > 1) =>
                   /\ events = ExpectedEvents
                   /\ grads = ExpectedGrads
                   /\ nrollouts = (iter - 1) * Len(ExpectedRollouts)
             /\ (trpc \in {"first", "last"} /\ rpc \in {"loop", "exited", "returned"}) =>
                   /\ Len(events) < Len(ExpectedEvents) - 1
                   /\ <<"rollout", feedback, train_rl>> = ExpectedEvents[Len(events) + 1]
             /\ trpc # "aborted"
        ELSE /\ nrollouts = 0
             /\ rpc = "idle"
             /\ grads = << >>
             /\ trpc \in {"iter", "aborted", "done"}
             /\ trpc = "done" => n_iters = 0
             /\ trpc = "aborted" => abort = "assert"

\* C6 witness: the second iteration of a 'sample' training with ml_weight set is
\* complete: imitation rollout, reinforcement rollout, backward.
C6_Witness ==
    /\ trpc = "iter"
    /\ iter = 3
    /\ train_fb = "sample"
    /\ ml_weight
    /\ Len(events) = 6
    /\ Len(grads) = 6

\* C7: reward shaping, reinforcement on.  A position that had ended before the
\* timestep gets reward 0 and mask 0.  Any other gets mask 1 and, on stop,
\* 2 + 2 * similarity if its distance is below 3.0 and -2 otherwise; on a move that
\* brought it closer, 1 + the change of similarity; on a move that took it farther,
\* -1 + the change of similarity, less 2 * (1 - previous distance) if the previous
\* distance was at most 1.0.  The distances and similarities of the timestep then
\* become the previous ones.  (Rewards and similarities in units of 1/NdtwUnits.)
C7_Step ==
    (rpc = "loop" /\ train_rl /\ rpc' # "aborted") =>
        /\ Len(rewards') = Len(rewards) + 1
        /\ Len(masks') = Len(masks) + 1
        /\ last_dist' = dist'
        /\ last_ndtw' = ndtw_score'
        /\ \A i \in Items :
             LET r == rewards'[Len(rewards')][i]
                 m == masks'[Len(masks')][i]
                 d == dist'[i]
                 ld == last_dist[i]
                 delta == ndtw_score'[i] - last_ndtw[i]
                 stop == traj'[i] = traj[i]
             IN  IF ended[i]
                 THEN r = 0 /\ m = 0
                 ELSE /\ m = 1
                      /\ (stop /\ d < 3) => r = 2 * NdtwUnits + 2 * ndtw_score'[i]
                      /\ (stop /\ d >= 3) => r = 0 - 2 * NdtwUnits
                      /\ (~stop /\ d < ld) => r = NdtwUnits + delta
                      /\ (~stop /\ d > ld /\ ld > 1) => r = delta - NdtwUnits
                      /\ (~stop /\ d > ld /\ ld <= 1) =>
                            r = delta - NdtwUnits - 2 * (1 - ld) * NdtwUnits
                      /\ ~stop => d # ld

C7_RewardShaping == [][C7_Step]_vars

\* C7 witness: two timesteps were rewarded; one position had ended before the
\* second (mask 0, reward 0) after a stop at the success threshold (reward -2); the
\* other left the goal in the first (the extra penalty makes the reward fall below
\* -2).
C7_Witness ==
    /\ train_rl
    /\ Len(rewards) = 2
    /\ \E i, j \in Items :
         /\ masks[2][i] = 0 /\ rewards[2][i] = 0
         /\ rewards[1][i] = 0 - 2 * NdtwUnits
         /\ rewards[1][j] < 0 - 2 * NdtwUnits

\* C8: in a reinforcement rollout, a timestep in which a position that has not
\* ended moves and is observed at exactly its previous distance kills the rollout:
\* no reward and no mask is recorded for the timestep, ended is not updated, and
\* the rollout never returns.
C8_Step ==
    /\ (/\ rpc = "loop"
        /\ train_rl
        /\ abort' # "desync"
        /\ \E i \in Items :
              ~ended[i] /\ traj'[i] # traj[i] /\ dist'[i] = last_dist[i])
       => /\ rpc' = "aborted"
          /\ abort' = "nomove"
          /\ rewards' = rewards
          /\ masks' = masks
          /\ ended' = ended
    /\ rpc = "aborted" => rpc' = "aborted"

C8_NoMoveIsFatal == [][C8_Step]_vars

\* C8 witness: the rollout died in its second timestep of a move that left the
\* distance as it was; the one reward recorded is that of the first timestep.
C8_Witness ==
    /\ rpc = "aborted"
    /\ abort = "nomove"
    /\ Len(rewards) = 1
    /\ \E i \in Items : PathLen(traj, i) = 3 /\ dist[i] = last_dist[i]

\* C9: the return of a position starts at the critic's value if the position has
\* not ended when the loop is left and at 0 if it has, and goes through the
\* recorded timesteps in reverse by return = return * gamma + reward[t]; so for a
\* position that ended in timestep s the return, the reward and the mask of every
\* later timestep are 0.  With rewards [1.0, -1.0, 2.0], gamma 0.9 and a start of 0
\* the return at the first timestep is 1.72.
C9_Scale == Pow(GammaDen, Len(rewards))

C9_Returns ==
    /\ (rpc = "returned" /\ train_rl) =>
         /\ Len(discounts) = Len(rewards)
         /\ Len(masks) = Len(rewards)
         /\ \A i \in Items :
              /\ ended[i] => last_value[i] = 0
              /\ ~ended[i] => last_value[i] \in CriticVals
              /\ \A k \in 1..Len(rewards) :
                   LET next == IF k = Len(rewards)
                               THEN last_value[i] * C9_Scale
                               ELSE discounts[k + 1][i]
                   IN  /\ (next * GammaNum) % GammaDen = 0
                       /\ discounts[k][i] =
                            (next * GammaNum) \div GammaDen + rewards[k][i] * C9_Scale
              /\ \A k \in 1..Len(rewards) :
                   masks[k][i] = 0 =>
                       /\ ended[i]
                       /\ discounts[k][i] = 0
                       /\ rewards[k][i] = 0
                       /\ \A k2 \in k..Len(rewards) : masks[k2][i] = 0
              /\ ended[i] =>
                   \E s \in 1..Len(rewards) :
                       \A k \in 1..Len(rewards) : masks[k][i] = IF k <= s THEN 1 ELSE 0
              /\ ~ended[i] => \A k \in 1..Len(rewards) : masks[k][i] = 1
    /\ GammaNum = 9
    /\ GammaDen = 10
    /\ DiscountRewards(<< [i \in Items |-> NdtwUnits],
                          [i \in Items |-> 0 - NdtwUnits],
                          [i \in Items |-> 2 * NdtwUnits] >>,
                       [i \in Items |-> 0])[1]
         = [i \in Items |-> 1720 * NdtwUnits]

\* C9 witness: a returned reinforcement rollout of two timesteps in which one
\* position ended in the first with a reward (its later return is 0) and the other
\* never ended and starts from the critic's value.
C9_Witness ==
    /\ rpc = "returned"
    /\ train_rl
    /\ Len(rewards) = 2
    /\ \E i, j \in Items :
         /\ ended[i] /\ masks[2][i] = 0 /\ rewards[1][i] # 0
         /\ discounts[2][i] = 0 /\ discounts[1][i] # 0
         /\ ~ended[j] /\ last_value[j] # 0 /\ discounts[2][j] # 0

\* C10: a rollout whose feedback mode is none of teacher, argmax, sample dies at the
\* action selection of its first timestep: no move-to primitive was issued, no
\* trajectory entry was appended, ended was not changed, and it never returns.
C10_State ==
    (feedback \notin {"teacher", "argmax", "sample"} /\ InRollout) =>
        /\ rpc \in {"loop", "aborted"}
        /\ rpc = "aborted" => abort = "feedback"
        /\ t = 0
        /\ rewards = << >>
        /\ \A i \in Items :
             /\ sims[i] = 0
             /\ PathLen(traj, i) = 1
             /\ ~ended[i]

C10_Step ==
    (feedback \notin {"teacher", "argmax", "sample"} /\ rpc = "loop") =>
        (rpc' = "aborted" /\ abort' = "feedback")

C10_InvalidFeedbackIsFatal == []C10_State /\ [][C10_Step]_vars

\* C10 witness: the rollout died of its feedback mode.
C10_Witness ==
    /\ rpc = "aborted"
    /\ abort = "feedback"
    /\ feedback = "greedy"

\* ------------------------------------------------------------------- C11
AbsDiff(a, b) == IF a < b THEN b - a ELSE a - b
Repeat(x, n) == [k \in 1..n |-> x]
C11_Tilts ==
    Repeat(IF src_point \div 12 < trg_point \div 12 THEN "up" ELSE "down",
           AbsDiff(trg_point \div 12, src_point \div 12))
C11_NumRights == Len(SelectSeq(prims, LAMBDA pr : pr = "right"))

\* The primitives issued so far are tilts of one direction, then only rights, then
\* at most one move-to, which is the last.
C11_Order ==
    LET n == Len(prims)
        nt == Len(SelectSeq(prims, LAMBDA pr : pr \in {"up", "down"}))
        nm == Len(SelectSeq(prims, LAMBDA pr : pr = "move"))
    IN  /\ \A k \in 1..n : prims[k] \in {"up", "down", "right", "move"}
        /\ nt <= Len(C11_Tilts)
        /\ \A k \in 1..nt : prims[k] = C11_Tilts[k]
        /\ \A k \in (nt + 1)..(nt + C11_NumRights) : prims[k] = "right"
        /\ C11_NumRights > 0 => nt = Len(C11_Tilts)
        /\ nm <= 1
        /\ nm = 1 => /\ prims[n] = "move"
                     /\ nt = Len(C11_Tilts)
                     /\ viewIndex = trg_point

C11_State ==
    mpc # "off" =>
        /\ C11_Order
        /\ appended = (IF mpc = "done" THEN 1 ELSE 0)
        /\ mpc \in {"moved", "done"} =>
              /\ prims = C11_Tilts \o Repeat("right", C11_NumRights) \o <<"move">>
              /\ nav_ok
        /\ mpc = "failed" =>
              /\ prims = C11_Tilts \o Repeat("right", C11_NumRights)
              /\ viewIndex = trg_point
              /\ ~nav_ok
        /\ mpc \in {"begin", "adjust"} => \A k \in 1..Len(prims) : prims[k] # "move"

C11_Finished == mpc \in {"done", "failed"}

\* C11: the actuation of one non-stop action issues |target level - source level|
\* tilts of one direction (level = view index div 12), then only pans to the right
\* until the simulator's view index is the target's, a loop that terminates, then
\* checks the navigable location; if the check holds exactly one move-to and then
\* exactly one trajectory append follow, and if it fails the actuation dies with
\* neither.
C11_Actuation == []C11_State /\ <>C11_Finished

\* C11 witness: an actuation that tilted down, panned, moved and appended.
C11_Witness ==
    /\ mpc = "done"
    /\ appended = 1
    /\ Len(prims) >= 4
    /\ prims[1] = "down"
    /\ prims[2] = "down"
    /\ prims[Len(prims) - 1] = "right"
    /\ prims[Len(prims)] = "move"

\* ------------------------------------------------------------------- C12
C12_Shape ==
    /\ candidate_leng = [i \in Items |-> cand_n[i] + 1 + cand_t]
    /\ \A i \in Items :
          /\ Len(candidate_feat[i]) >= candidate_leng[i]
          /\ \E j \in Items : Len(candidate_feat[i]) = cand_n[j] + 1 + cand_t
    /\ \A i \in Items :
          /\ \A j \in 1..cand_n[i] : candidate_feat[i][cand_t + j] = CandFeature(i, j)
          /\ \A r \in (cand_t + cand_n[i] + 1)..Len(candidate_feat[i]) :
                candidate_feat[i][r] = [vis |-> 0, ang |-> 0]
    /\ \A i \in Items :
          (cand_t = 0 /\ \A j \in Items : cand_n[j] = cand_n[i]) =>
              Len(candidate_feat[i]) = cand_n[i] + 1

\* The claim as written: the first t rows are the memory bank's rows, every
\* component unchanged.
C12_MemoryRowsVerbatim ==
    cpc = "built" =>
        /\ C12_Shape
        /\ \A i \in Items : \A r \in 1..cand_t : candidate_feat[i][r] = vis_taj[i][r]

\* C12 (amended): the output has max over the batch of (num_candidates + 1 + t)
\* rows; for t > 0 its rows 0..t-2 are the memory bank's rows 0..t-2 verbatim and
\* its row t-1 has the visual components of the bank's row t-1 and the current
\* angle feature input_a_t as its angle components; the real candidates occupy
\* rows t..t+num_candidates-1 in candidate order; all remaining rows are zero.
C12_CandidateFeatures ==
    cpc = "built" =>
        /\ C12_Shape
        /\ \A i \in Items :
              /\ \A r \in 1..(cand_t - 1) : candidate_feat[i][r] = vis_taj[i][r]
              /\ cand_t > 0 =>
                    /\ candidate_feat[i][cand_t].vis = vis_taj[i][cand_t].vis
                    /\ candidate_feat[i][cand_t].ang = input_a_t[i]

\* C12 witness: a call with t = 2 whose positions differ in their candidates and
\* whose bank rows are not zero.
C12_Witness ==
    /\ cpc = "built"
    /\ cand_t = 2
    /\ cand_n[1] = 1
    /\ cand_n[2] = 0
    /\ vis_taj[1][1] = [vis |-> 1, ang |-> 1]
    /\ vis_taj[1][2].vis = 1
    /\ candidate_feat[1][2] # vis_taj[1][2]

\* ------------------------------------------------------------------- C13
C13_Matches == {k \in 1..Len(sel_cands) : sel_cands[k] = sel_teacher}

\* C13: the teacher oracle's result is the ignore sentinel for an ended position;
\* otherwise the index of the first candidate whose viewpoint is the teacher's
\* viewpoint, or len(candidates), the stop slot, when no candidate has it; for a
\* position that has not ended it is in 0..len(candidates).
C13_TeacherOracle ==
    spc \in {"select", "done"} =>
        IF sel_ended
        THEN sel_target = -100
        ELSE /\ sel_target \in 0..Len(sel_cands)
             /\ IF C13_Matches # {}
                THEN /\ sel_target + 1 \in C13_Matches
                     /\ \A k \in C13_Matches : sel_target + 1 <= k
                ELSE sel_target = Len(sel_cands)

\* C13 witness: three candidates of which the second and the third have the
\* teacher's viewpoint: the oracle answered 1.
C13_Witness ==
    /\ spc = "select"
    /\ ~sel_ended
    /\ Len(sel_cands) = 3
    /\ sel_cands[1] # sel_teacher
    /\ sel_cands[2] = sel_teacher
    /\ sel_cands[3] = sel_teacher
    /\ sel_target = 1

\* ------------------------------------------------------------------- C15
\* C15: in every feedback mode and at every timestep the index handed to the
\* actuator for a position is -1 or an index 0..len(candidates)-1 into the
\* position's candidate list: a selected len(candidates) (stop), the ignore
\* sentinel and any selection for an ended position are handed over as -1, every
\* other selection as it is.
C15_ActuatorIndex ==
    spc = "done" =>
        /\ sel_cpu_a_t = -1 \/ sel_cpu_a_t \in 0..(Len(sel_cands) - 1)
        /\ (sel_a_t = Len(sel_cands) \/ sel_a_t = -100 \/ sel_ended) => sel_cpu_a_t = -1
        /\ ~(sel_a_t = Len(sel_cands) \/ sel_a_t = -100 \/ sel_ended) =>
              sel_cpu_a_t = sel_a_t

\* C15 witness: in a later timestep the sampler chose the stop slot of a position
\* that has candidates and has not ended, and the actuator was handed -1.
C15_Witness ==
    /\ spc = "done"
    /\ feedback = "sample"
    /\ sel_t > 0
    /\ ~sel_ended
    /\ Len(sel_cands) > 0
    /\ sel_a_t = Len(sel_cands)
    /\ sel_cpu_a_t = -1

\* ------------------------------------------------------------------- C14
C14_Inverse(p) == [s \in Items |-> CHOOSE i \in Items : p[i] = s]
C14_Apply(seq, p) == [i \in Items |-> seq[p[i]]]

C14_State ==
    InRollout =>
        /\ \A s \in Items : Cardinality({i \in Items : perm_idx[i] = s}) = 1
        /\ \A i, j \in Items :
              i < j => InstrLen(batch[perm_idx[i]]) >= InstrLen(batch[perm_idx[j]])
        /\ C14_Apply(C14_Apply(batch, perm_idx), C14_Inverse(perm_idx)) = batch
        /\ \A i \in Items :
              /\ traj[i].instr_id = batch[perm_idx[i]]
              /\ Len(traj[i].path) = sims[perm_idx[i]] + 1
              /\ \A k \in 1..Len(traj[i].path) : traj[i].path[k] = <<perm_idx[i], k - 1>>

C14_Step == InRollout => (perm_idx' = perm_idx /\ batch' = batch)

\* C14: the permutation computed at the start of a rollout is a bijection on the
\* batch positions that puts the instruction lengths in non-increasing order,
\* applying it and then its inverse gives back the original order, and it stays
\* as it is for the whole rollout: trajectory i carries the instruction id of
\* environment slot perm_idx[i] and exactly the moves of that slot's simulator.
C14_PermutationHeld == []C14_State /\ [][C14_Step]_vars

\* C14 witness: a rollout that returned under a permutation that is not the
\* identity, in which position 1 moved and position 2 did not.
C14_Witness ==
    /\ rpc = "returned"
    /\ perm_idx[1] = 2
    /\ perm_idx[2] = 1
    /\ Len(traj[1].path) >= 2
    /\ Len(traj[2].path) = 1
    /\ sims[2] >= 1
    /\ sims[1] = 0

====
